---- MODULE Spec2Model ----
(***************************************************************************)
(* Model of metrics.py: the driver that parses the command line, builds    *)
(* the OS3E topology, chooses the controller counts, rescales the link     *)
(* failure probability, runs the exhaustive enumerator (or loads a prior   *)
(* result file), runs the greedy selectors and writes the output files.    *)
(*                                                                         *)
(* Python values are modelled as follows.                                  *)
(*   - a string that the code inspects (controller_list) is a sequence of  *)
(*     one-character strings; other strings are TLA+ strings;              *)
(*   - None / an unbound local is the empty sequence <<>>, a present value *)
(*     v is the one-element sequence <<v>>;                                *)
(*   - a float is an exact fraction [num, den] in lowest terms (rounding   *)
(*     of the IEEE representation is outside the model).                   *)
(***************************************************************************)
EXTENDS Integers, Sequences, FiniteSets, TLC

VARIABLES
    argv,                 \* the command line of the process (input)
    options,              \* the value returned by parse_args
    g,                    \* the topology graph
    controllers,          \* the controller counts handed to the enumerator
    filename,             \* output file name, as a sequence of parts
    PRIOR_OPTS_filename,  \* local of __init__: <<>> while unbound
    data,                 \* the ResultStore: sequence of recorded entries
    EXTRA_PARAMS,         \* module-level dictionary
    calls,                \* external calls made so far, in order
    pc,                   \* position inside Metrics.__init__
    error,                \* exception that ended the run, "" if none
    i,                    \* index of the best-n / worst-n loop
    constructions,        \* number of Metrics() constructions started
    scores,               \* enumerator: score of every combination
    pool,                 \* enumerator: [processes, chunksize, multiprocess]
    pending,              \* enumerator: batches not yet dispatched
    inflight,             \* enumerator: set of batches being evaluated by workers
    dist,                 \* enumerator: the retained distribution
    summary,              \* enumerator: best / worst / median values
    epc                   \* enumerator: position inside run_all_combos

vars == <<argv, options, g, controllers, filename, PRIOR_OPTS_filename, data,
          EXTRA_PARAMS, calls, pc, error, i, constructions,
          scores, pool, pending, inflight, dist, summary, epc>>

runVars == <<argv, options, g, controllers, filename, PRIOR_OPTS_filename,
             data, EXTRA_PARAMS, calls, pc, error, i, constructions>>

enumVars == <<scores, pool, pending, inflight, dist, summary, epc>>

----------------------------------------------------------------------------
(* Bounds of the model.                                                    *)

MaxListLen == 3        \* longest --controller_list string
MaxFrom == 3           \* largest --from_start / --from_end
MaxNodes == 3          \* largest node count of the graph
MaxEdges == 2          \* largest edge count of the graph
MaxWeight == 2         \* largest edge weight
MaxConstructions == 2  \* Metrics() constructions in one process
MaxCombos == 3         \* enumerator: most combinations of one (k, metric)
MaxScore == 2          \* enumerator: largest metric value
MaxProcesses == 2      \* enumerator: largest worker pool
MaxChunk == 2          \* enumerator: largest batch size

----------------------------------------------------------------------------
(* Values.                                                                 *)

None == <<>>
Some(v) == <<v>>

RECURSIVE GCD(_, _)
GCD(a, b) == IF b = 0 THEN a ELSE GCD(b, a % b)

Frac(n, d) == [num |-> n \div GCD(n, d), den |-> d \div GCD(n, d)]

RECURSIVE Sum(_)
Sum(s) == IF s = <<>> THEN 0 ELSE Head(s) + Sum(Tail(s))

\* Python 2 range(a, b)
Range(a, b) == IF b > a THEN [j \in 1..(b - a) |-> a + j - 1] ELSE <<>>

\* str.split(' '): cut at every single space, keeping empty tokens
RECURSIVE Split(_)
Split(s) ==
    IF s = <<>> THEN << <<>> >>
    ELSE LET rest == Split(Tail(s))
         IN  IF Head(s) = " " THEN << <<>> >> \o rest
             ELSE << <<Head(s)>> \o Head(rest) >> \o Tail(rest)

Digits == {"0", "1", "2", "3", "4", "5", "6", "7", "8", "9"}

DigitVal(c) ==
    CASE c = "0" -> 0 [] c = "1" -> 1 [] c = "2" -> 2 [] c = "3" -> 3
      [] c = "4" -> 4 [] c = "5" -> 5 [] c = "6" -> 6 [] c = "7" -> 7
      [] c = "8" -> 8 [] c = "9" -> 9

\* does int(tok) succeed: optional sign, then one or more decimal digits
IsIntLiteral(tok) ==
    LET body == IF tok # <<>> /\ Head(tok) \in {"+", "-"} THEN Tail(tok)
                ELSE tok
    IN  body # <<>> /\ \A j \in 1..Len(body) : body[j] \in Digits

RECURSIVE DecimalValue(_)
DecimalValue(ds) ==
    IF ds = <<>> THEN 0
    ELSE 10 * DecimalValue(SubSeq(ds, 1, Len(ds) - 1)) + DigitVal(ds[Len(ds)])

\* int(tok) for a token on which it succeeds
IntOf(tok) ==
    IF Head(tok) = "-" THEN 0 - DecimalValue(Tail(tok))
    ELSE IF Head(tok) = "+" THEN DecimalValue(Tail(tok))
    ELSE DecimalValue(tok)

\* metrics.METRICS, the names accepted by --metric
METRICS == <<"latency", "wc_latency">>

SeqToSet(s) == {s[j] : j \in 1..Len(s)}

----------------------------------------------------------------------------
(* The command line.                                                       *)

\* the option defaults of parse_args
DefaultArgv ==
    [from_start |-> 3, from_end |-> 0, controller_list |-> None,
     metric |-> "latency", all_metrics |-> FALSE, lat_metrics |-> FALSE,
     write |-> FALSE, weighted |-> FALSE, median |-> FALSE,
     multiprocess |-> TRUE, processes |-> 4, chunksize |-> 50,
     write_combos |-> FALSE, write_dist |-> FALSE, dist_only |-> TRUE,
     use_prior_opts |-> FALSE, compute_start |-> TRUE, compute_end |-> TRUE]

Chars == {"1", "2", " ", "x"}

Strings(n) == UNION {[1..m -> Chars] : m \in 0..n}

FromValues == (0 - 1)..MaxFrom

\* command lines that vary the controller-count options
ArgvSelection ==
    {[DefaultArgv EXCEPT !.controller_list = l, !.from_start = fs,
                         !.from_end = fe, !.compute_start = cs,
                         !.compute_end = ce] :
        l \in {None} \cup {Some(s) : s \in Strings(MaxListLen)},
        fs \in FromValues, fe \in FromValues,
        cs \in BOOLEAN, ce \in BOOLEAN}

\* command lines that vary the metric and the mode flags
ArgvRun ==
    {[DefaultArgv EXCEPT !.metric = m, !.all_metrics = am, !.lat_metrics = lm,
                         !.weighted = w, !.use_prior_opts = up,
                         !.dist_only = d, !.write = wr, !.write_dist = wd] :
        m \in SeqToSet(METRICS) \cup {"bogus"},
        am \in BOOLEAN, lm \in BOOLEAN, w \in BOOLEAN, up \in BOOLEAN,
        d \in BOOLEAN, wr \in BOOLEAN, wd \in BOOLEAN}

Argvs == ArgvSelection \cup ArgvRun

----------------------------------------------------------------------------
(* parse_args                                                              *)

\* the truth value of options.controller_list
ListGiven(a) == a.controller_list # None /\ a.controller_list[1] # <<>>

Tokens(a) == Split(a.controller_list[1])

\* lines 73-78
MetricsOf(a) ==
    IF a.all_metrics THEN METRICS
    ELSE IF a.lat_metrics THEN <<"latency", "wc_latency">>
    ELSE <<a.metric>>

\* lines 19-71: the options as optparse stores them, with options.metrics
\* (lines 73-78) and options.controllers (lines 80-84)
OptionsOf(a) ==
    [from_start |-> a.from_start, from_end |-> a.from_end,
     controller_list |-> a.controller_list,
     metric |-> a.metric, all_metrics |-> a.all_metrics,
     lat_metrics |-> a.lat_metrics, write |-> a.write,
     weighted |-> a.weighted, median |-> a.median,
     multiprocess |-> a.multiprocess, processes |-> a.processes,
     chunksize |-> a.chunksize, write_combos |-> a.write_combos,
     write_dist |-> a.write_dist, dist_only |-> a.dist_only,
     use_prior_opts |-> a.use_prior_opts,
     compute_start |-> a.compute_start,
     compute_end |-> a.compute_end,
     metrics |-> MetricsOf(a),
     controllers |->
        IF ListGiven(a)
        THEN Some([j \in 1..Len(Tokens(a)) |-> IntOf(Tokens(a)[j])])
        ELSE None]

\* mutation: --metric declared without its choices
ParseError_AnyMetric(a) ==
    IF ListGiven(a) /\ \E j \in 1..Len(Tokens(a)) : ~IsIntLiteral(Tokens(a)[j])
    THEN "ValueError"
    ELSE ""

\* the exception parse_args raises on command line a, "" if none: optparse
\* rejects a --metric outside its choices (lines 26-29, 71), int() rejects
\* a token of the controller list (line 84)
ParseError(a) ==
    IF a.metric \notin SeqToSet(METRICS) THEN "OptionError"
    ELSE IF ListGiven(a) /\ \E j \in 1..Len(Tokens(a)) :
                                ~IsIntLiteral(Tokens(a)[j])
    THEN "ValueError"
    ELSE ""

\* what parse_args does with command line a
ParseArgs(a) ==
    [error |-> ParseError(a),
     options |-> IF ParseError(a) = "" THEN OptionsOf(a) ELSE None]

parse_args ==
    /\ pc = "start"
    /\ LET r == ParseArgs(argv)
       IN  IF r.error # ""
           THEN /\ pc' = "failed"
                /\ error' = r.error
                /\ UNCHANGED options
           ELSE /\ pc' = "parsed"
                /\ options' = r.options
                /\ UNCHANGED error
    /\ UNCHANGED <<argv, g, controllers, filename, PRIOR_OPTS_filename, data,
                   EXTRA_PARAMS, calls, i, constructions>>
    /\ UNCHANGED enumVars

----------------------------------------------------------------------------
(* Metrics.__init__                                                        *)

WeightSeqs == UNION {[1..m -> 1..MaxWeight] : m \in 1..MaxEdges}

\* the graphs OS3EWeightedGraph() may build: a node count and one weight
\* per edge
OS3EWeightedGraph ==
    {[nodes |-> n, weights |-> ws] : n \in 1..MaxNodes, ws \in WeightSeqs}

\* the graphs OS3EGraph() may build: every edge counts as one hop
OS3EGraph ==
    {[nodes |-> n, weights |-> [j \in 1..m |-> 1]] :
        n \in 1..MaxNodes, m \in 1..MaxEdges}

\* lines 103-106
BuildGraph ==
    /\ pc = "parsed"
    /\ \E graph \in IF options.weighted THEN OS3EWeightedGraph ELSE OS3EGraph :
          g' = graph
    /\ pc' = "graph"
    /\ UNCHANGED <<argv, options, controllers, filename, PRIOR_OPTS_filename,
                   data, EXTRA_PARAMS, calls, error, i, constructions>>
    /\ UNCHANGED enumVars

\* mutation: the 'last N' range starts one count too early
ControllerCounts_EndOffByOne(o, n) ==
    IF o.controllers # None /\ o.controllers[1] # <<>>
    THEN o.controllers[1]
    ELSE (IF o.compute_start THEN Range(1, o.from_start + 1) ELSE <<>>)
         \o (IF o.compute_end THEN Range(n - o.from_end, n + 1) ELSE <<>>)

\* lines 108-119: the controller counts for options o on a graph of n nodes
ControllerCounts(o, n) ==
    IF o.controllers # None /\ o.controllers[1] # <<>>
    THEN o.controllers[1]
    ELSE (IF o.compute_start THEN Range(1, o.from_start + 1) ELSE <<>>)
         \o (IF o.compute_end THEN Range(n - o.from_end + 1, n + 1) ELSE <<>>)

RECURSIVE ListSuffix(_)
ListSuffix(cs) ==
    IF cs = <<>> THEN <<>>
    ELSE <<"_", ToString(Head(cs))>> \o ListSuffix(Tail(cs))

\* lines 121-132
FileName(o, cs) ==
    <<"data_out/os3e_", IF o.weighted THEN "weighted" ELSE "unweighted">>
    \o (IF o.controller_list # None /\ o.controller_list[1] # <<>>
        THEN ListSuffix(cs)
        ELSE <<"_", ToString(o.from_start), "_to_", ToString(o.from_end)>>)

\* lines 108-138
SelectControllers ==
    /\ pc = "graph"
    /\ controllers' = ControllerCounts(options, g.nodes)
    /\ filename' = FileName(options, controllers')
    /\ PRIOR_OPTS_filename' =
          IF options.weighted THEN PRIOR_OPTS_filename
          ELSE Some("data_out/os3e_unweighted_9_9.json")
    /\ data' = <<>>
    /\ pc' = "selected"
    /\ UNCHANGED <<argv, options, g, EXTRA_PARAMS, calls, error, i,
                   constructions>>
    /\ UNCHANGED enumVars

Call(fn, arg) == [fn |-> fn, arg |-> arg]

\* mutation: total weight over edge count
Rescale_Inverted(graph, p) ==
    Frac(Sum(graph.weights) * p.num, Len(graph.weights) * p.den)

\* line 146: the link failure probability p rescaled for graph
Rescale(graph, p) ==
    Frac(Len(graph.weights) * p.num, Sum(graph.weights) * p.den)

\* lines 140-150
ComputePaths ==
    /\ pc = "selected"
    /\ IF options.weighted
       THEN /\ calls' = Append(calls, Call("all_pairs_dijkstra", <<>>))
            /\ EXTRA_PARAMS' =
                  [EXTRA_PARAMS EXCEPT
                     !.link_fail_prob = Rescale(g, EXTRA_PARAMS.link_fail_prob)]
       ELSE /\ calls' = Append(calls, Call("all_pairs_shortest_path", <<>>))
            /\ UNCHANGED EXTRA_PARAMS
    /\ pc' = "paths"
    /\ UNCHANGED <<argv, options, g, controllers, filename,
                   PRIOR_OPTS_filename, data, error, i, constructions>>
    /\ UNCHANGED enumVars

\* mutation: the files are written whatever options.write says
AfterGreedy_AlwaysWrite(o) == "write_json"

\* line 181: where __init__ continues after the greedy selectors
AfterGreedy(o) == IF o.write THEN "write_json" ELSE "done"

\* mutation: the test of dist_only inverted
AfterCompute_Inverted(o) ==
    IF o.dist_only THEN "greedy_informed" ELSE AfterGreedy(o)

\* line 163: where __init__ continues after the load / enumeration
AfterCompute(o) == IF o.dist_only THEN AfterGreedy(o) ELSE "greedy_informed"

\* what the prior result file holds
PriorData == <<[alg |-> "prior", k |-> 9, metric |-> "latency"]>>

\* lines 152-153
LoadPrior ==
    /\ pc = "paths"
    /\ options.use_prior_opts
    /\ IF PRIOR_OPTS_filename = None
       THEN /\ pc' = "failed"
            /\ error' = "UnboundLocalError"
            /\ UNCHANGED <<data, calls>>
       ELSE /\ calls' = Append(calls, Call("read_json_file",
                                           PRIOR_OPTS_filename[1]))
            /\ \/ /\ data' = PriorData
                  /\ pc' = AfterCompute(options)
                  /\ UNCHANGED error
               \/ /\ pc' = "failed"
                  /\ error' = "PriorLoadError"
                  /\ UNCHANGED data
    /\ i' = 1
    /\ UNCHANGED <<argv, options, g, controllers, filename,
                   PRIOR_OPTS_filename, EXTRA_PARAMS, constructions>>
    /\ UNCHANGED enumVars

\* the entries run_all_combos folds into the ResultStore: one per
\* controller count and metric
ComboEntries(cs, ms) ==
    [n \in 1..(Len(cs) * Len(ms)) |->
        [alg |-> "all_combos",
         k |-> cs[((n - 1) \div Len(ms)) + 1],
         metric |-> ms[((n - 1) % Len(ms)) + 1]]]

\* lines 155-161
RunAllCombos ==
    /\ pc = "paths"
    /\ ~options.use_prior_opts
    /\ calls' = Append(calls,
          Call("run_all_combos",
               [metrics |-> options.metrics, controllers |-> controllers,
                weighted |-> options.weighted,
                write_dist |-> options.write_dist,
                write_combos |-> options.write_combos,
                extra_params |-> EXTRA_PARAMS,
                processes |-> options.processes,
                multiprocess |-> options.multiprocess,
                chunksize |-> options.chunksize,
                median |-> options.median]))
    /\ data' = data \o ComboEntries(controllers, options.metrics)
    /\ pc' = AfterCompute(options)
    /\ i' = 1
    /\ UNCHANGED <<argv, options, g, controllers, filename,
                   PRIOR_OPTS_filename, EXTRA_PARAMS, error, constructions>>
    /\ UNCHANGED enumVars

\* the values of n at line 167
BestWorstN == <<10, 100, 1000>>

Entry(alg, k, metric) == [alg |-> alg, k |-> k, metric |-> metric]

\* line 164
RunGreedyInformed ==
    /\ pc = "greedy_informed"
    /\ calls' = Append(calls, Call("run_greedy_informed",
                                   [weighted |-> options.weighted]))
    /\ data' = Append(data, Entry("greedy-informed", 0, "latency"))
    /\ pc' = "greedy_cc"
    /\ UNCHANGED <<argv, options, g, controllers, filename,
                   PRIOR_OPTS_filename, EXTRA_PARAMS, error, i,
                   constructions>>
    /\ UNCHANGED enumVars

\* lines 165-166: one call of run_greedy_alg_dict
GreedyAlgDict(at, label, centrality, next) ==
    /\ pc = at
    /\ calls' = Append(calls, Call("run_greedy_alg_dict",
                                   [label |-> label, metric |-> "latency",
                                    dict |-> centrality,
                                    weighted |-> options.weighted]))
    /\ data' = Append(data, Entry(label, 0, "latency"))
    /\ pc' = next
    /\ UNCHANGED <<argv, options, g, controllers, filename,
                   PRIOR_OPTS_filename, EXTRA_PARAMS, error, i,
                   constructions>>
    /\ UNCHANGED enumVars

\* line 165
RunGreedyCC ==
    GreedyAlgDict("greedy_cc", "greedy-cc", "closeness_centrality",
                  "greedy_dc")

\* line 166
RunGreedyDC ==
    GreedyAlgDict("greedy_dc", "greedy-dc", "degree_centrality", "best_n")

\* line 168
RunBestN ==
    /\ pc = "best_n"
    /\ calls' = Append(calls, Call("run_best_n",
                                   [n |-> BestWorstN[i],
                                    weighted |-> options.weighted]))
    /\ data' = Append(data, Entry("best-n", BestWorstN[i], "latency"))
    /\ pc' = "worst_n"
    /\ UNCHANGED <<argv, options, g, controllers, filename,
                   PRIOR_OPTS_filename, EXTRA_PARAMS, error, i,
                   constructions>>
    /\ UNCHANGED enumVars

\* lines 167, 169
RunWorstN ==
    /\ pc = "worst_n"
    /\ calls' = Append(calls, Call("run_worst_n",
                                   [n |-> BestWorstN[i],
                                    weighted |-> options.weighted]))
    /\ data' = Append(data, Entry("worst-n", BestWorstN[i], "latency"))
    /\ IF i < Len(BestWorstN)
       THEN /\ i' = i + 1
            /\ pc' = "best_n"
       ELSE /\ pc' = AfterGreedy(options)
            /\ UNCHANGED i
    /\ UNCHANGED <<argv, options, g, controllers, filename,
                   PRIOR_OPTS_filename, EXTRA_PARAMS, error, constructions>>
    /\ UNCHANGED enumVars

\* lines 174-176
Exclude(o) ==
    <<"distribution", "metric", "group", "id">>
    \o (IF o.write_combos THEN <<>> ELSE <<"highest_combo", "lowest_combo">>)

\* lines 181-182
WriteJson ==
    /\ pc = "write_json"
    /\ calls' = Append(calls, Call("write_json_file",
                                   [file |-> filename \o <<".json">>,
                                    data |-> data]))
    /\ pc' = "write_csv"
    /\ UNCHANGED <<argv, options, g, controllers, filename,
                   PRIOR_OPTS_filename, data, EXTRA_PARAMS, error, i,
                   constructions>>
    /\ UNCHANGED enumVars

\* lines 183-184
WriteCsv ==
    /\ pc = "write_csv"
    /\ calls' = Append(calls, Call("write_csv_file",
                                   [file |-> filename, data |-> data,
                                    exclude |-> Exclude(options)]))
    /\ pc' = IF options.write_dist THEN "write_dist_csv" ELSE "done"
    /\ UNCHANGED <<argv, options, g, controllers, filename,
                   PRIOR_OPTS_filename, data, EXTRA_PARAMS, error, i,
                   constructions>>
    /\ UNCHANGED enumVars

\* line 185
WriteDistCsv ==
    /\ pc = "write_dist_csv"
    /\ calls' = Append(calls, Call("write_dist_csv_file",
                                   [file |-> filename \o <<"_dist">>,
                                    data |-> data,
                                    exclude |-> Exclude(options)]))
    /\ pc' = "done"
    /\ UNCHANGED <<argv, options, g, controllers, filename,
                   PRIOR_OPTS_filename, data, EXTRA_PARAMS, error, i,
                   constructions>>
    /\ UNCHANGED enumVars

----------------------------------------------------------------------------
(* One process: the module is loaded and Metrics() is constructed once     *)
(* (lines 89-93, 188-189).                                                 *)

\* lines 90-93
InitialParams ==
    [link_fail_prob |-> [num |-> 1, den |-> 100], max_failures |-> 2]

EnumIdle ==
    /\ scores = <<>>
    /\ pool = [processes |-> 0, chunksize |-> 0, multiprocess |-> FALSE]
    /\ pending = <<>>
    /\ inflight = {}
    /\ dist = <<>>
    /\ summary = None
    /\ epc = "idle"

RunStart(a) ==
    /\ argv = a
    /\ options = None
    /\ g = None
    /\ controllers = <<>>
    /\ filename = <<>>
    /\ PRIOR_OPTS_filename = None
    /\ data = <<>>
    /\ EXTRA_PARAMS = InitialParams
    /\ calls = <<>>
    /\ pc = "start"
    /\ error = ""
    /\ i = 1
    /\ constructions = 1

Init ==
    /\ \E a \in Argvs : RunStart(a)
    /\ EnumIdle

Next ==
    \/ parse_args
    \/ BuildGraph
    \/ SelectControllers
    \/ ComputePaths
    \/ LoadPrior
    \/ RunAllCombos
    \/ RunGreedyInformed
    \/ RunGreedyCC
    \/ RunGreedyDC
    \/ RunBestN
    \/ RunWorstN
    \/ WriteJson
    \/ WriteCsv
    \/ WriteDistCsv

Spec == Init /\ [][Next]_vars

----------------------------------------------------------------------------
(* One process in which Metrics() is constructed repeatedly: EXTRA_PARAMS   *)
(* is a module-level dictionary and outlives each construction.            *)

\* command lines that vary the mode flags only
ArgvModes ==
    {[DefaultArgv EXCEPT !.weighted = w, !.use_prior_opts = up,
                         !.dist_only = d, !.write = wr, !.write_dist = wd] :
        w \in BOOLEAN, up \in BOOLEAN, d \in BOOLEAN, wr \in BOOLEAN,
        wd \in BOOLEAN}

\* line 98: a further Metrics() call once the previous one has returned or
\* raised
NewConstruction ==
    /\ pc \in {"done", "failed"}
    /\ constructions < MaxConstructions
    /\ \E a \in ArgvModes : argv' = a
    /\ options' = None
    /\ g' = None
    /\ controllers' = <<>>
    /\ filename' = <<>>
    /\ PRIOR_OPTS_filename' = None
    /\ data' = <<>>
    /\ calls' = <<>>
    /\ pc' = "start"
    /\ error' = ""
    /\ i' = 1
    /\ constructions' = constructions + 1
    /\ UNCHANGED EXTRA_PARAMS
    /\ UNCHANGED enumVars

InitRepeat ==
    /\ \E a \in ArgvModes : RunStart(a)
    /\ EnumIdle

NextRepeat == Next \/ NewConstruction

SpecRepeat == InitRepeat /\ [][NextRepeat]_vars

----------------------------------------------------------------------------
(* run_all_combos for one controller count and one metric: the             *)
(* combinations, in enumeration order, are cut into batches of chunksize;  *)
(* with multiprocess on the batches are evaluated by a pool of worker      *)
(* processes and folded into the distribution as each one returns, with    *)
(* multiprocess off they are evaluated in order by the enumerating thread. *)

\* the PlacementScores in enumeration order: combination j has value sc[j]
Placements(sc) == [j \in 1..Len(sc) |-> [id |-> j, value |-> sc[j]]]

\* a sequence cut into consecutive batches of n elements
RECURSIVE Batches(_, _)
Batches(s, n) ==
    IF s = <<>> THEN <<>>
    ELSE IF Len(s) <= n THEN <<s>>
    ELSE <<SubSeq(s, 1, n)>> \o Batches(SubSeq(s, n + 1, Len(s)), n)

\* values of d with v inserted before the first larger value
RECURSIVE Insert(_, _)
Insert(v, sorted) ==
    IF sorted = <<>> THEN <<v>>
    ELSE IF v <= Head(sorted) THEN <<v>> \o sorted
    ELSE <<Head(sorted)>> \o Insert(v, Tail(sorted))

RECURSIVE SortedValues(_)
SortedValues(d) ==
    IF d = <<>> THEN <<>>
    ELSE Insert(Head(d).value, SortedValues(Tail(d)))

\* the lowest value of a non-empty distribution, folded entry by entry
RECURSIVE BestValue(_)
BestValue(d) ==
    IF Len(d) = 1 THEN d[1].value
    ELSE LET rest == BestValue(Tail(d))
         IN  IF Head(d).value < rest THEN Head(d).value ELSE rest

\* the highest value of a non-empty distribution, folded entry by entry
RECURSIVE WorstValue(_)
WorstValue(d) ==
    IF Len(d) = 1 THEN d[1].value
    ELSE LET rest == WorstValue(Tail(d))
         IN  IF Head(d).value > rest THEN Head(d).value ELSE rest

\* mutation: the middle entry of the distribution as retained, unsorted
MedianValue_Unsorted(d) == d[(Len(d) + 1) \div 2].value

\* the median value: the lower of the two middle values of the ordered
\* distribution when the cardinality is even
MedianValue(d) == SortedValues(d)[(Len(d) + 1) \div 2]

Summarise(d) ==
    [best |-> BestValue(d), worst |-> WorstValue(d),
     median |-> MedianValue(d)]

\* the enumerating thread hands the next batch to an idle worker
Dispatch ==
    /\ epc = "running"
    /\ pool.multiprocess
    /\ pending # <<>>
    /\ Cardinality(inflight) < pool.processes
    /\ inflight' = inflight \cup {Head(pending)}
    /\ pending' = Tail(pending)
    /\ UNCHANGED <<scores, pool, dist, summary, epc>>
    /\ UNCHANGED runVars

\* a worker returns the PlacementScores of its batch, which are folded in
Complete ==
    /\ epc = "running"
    /\ \E b \in inflight :
          /\ inflight' = inflight \ {b}
          /\ dist' = dist \o b
    /\ UNCHANGED <<scores, pool, pending, summary, epc>>
    /\ UNCHANGED runVars

\* multiprocess off: the enumerating thread evaluates the next batch
EvaluateBatch ==
    /\ epc = "running"
    /\ ~pool.multiprocess
    /\ pending # <<>>
    /\ dist' = dist \o Head(pending)
    /\ pending' = Tail(pending)
    /\ UNCHANGED <<scores, pool, inflight, summary, epc>>
    /\ UNCHANGED runVars

\* every batch has returned: the summary statistics are derived
Aggregate ==
    /\ epc = "running"
    /\ pending = <<>>
    /\ inflight = {}
    /\ summary' = Some(Summarise(dist))
    /\ epc' = "done"
    /\ UNCHANGED <<scores, pool, pending, inflight, dist>>
    /\ UNCHANGED runVars

ScoreSeqs == UNION {[1..m -> 1..MaxScore] : m \in 1..MaxCombos}

Pools ==
    [processes : 1..MaxProcesses, chunksize : 1..MaxChunk,
     multiprocess : BOOLEAN]

InitEnum ==
    /\ RunStart(DefaultArgv)
    /\ scores \in ScoreSeqs
    /\ pool \in Pools
    /\ pending = Batches(Placements(scores), pool.chunksize)
    /\ inflight = {}
    /\ dist = <<>>
    /\ summary = None
    /\ epc = "running"

NextEnum == Dispatch \/ Complete \/ EvaluateBatch \/ Aggregate

SpecEnum == InitEnum /\ [][NextEnum]_vars

----------------------------------------------------------------------------
(* Vocabulary of the properties.                                           *)

CallsOf(fns) == SelectSeq(calls, LAMBDA c : c.fn \in fns)

EnumCalls == CallsOf({"run_all_combos"})

WriteFns == {"write_json_file", "write_csv_file", "write_dist_csv_file"}

GreedyFns == {"run_greedy_informed", "run_greedy_alg_dict", "run_best_n",
              "run_worst_n"}

\* the command line was accepted by parse_args
Parsed == pc # "start" /\ error \notin {"OptionError", "ValueError"}

\* __init__ is past the load / enumeration step
PastCompute ==
    pc \in {"greedy_informed", "greedy_cc", "greedy_dc", "best_n", "worst_n",
            "write_json", "write_csv", "write_dist_csv", "done"}

PastGreedy == pc \in {"write_json", "write_csv", "write_dist_csv", "done"}

IsPrefix(p, s) == Len(p) <= Len(s) /\ SubSeq(s, 1, Len(p)) = p

----------------------------------------------------------------------------
(* C1: in every run with use_prior_opts set, weighted or not, the          *)
(* enumerator is never invoked, the ResultStore is set to the contents of  *)
(* the prior result file, and the only failure the run may end in before   *)
(* the load is a prior-data load error.                                    *)
C1_PriorDataLoaded ==
    (Parsed /\ argv.use_prior_opts) =>
        /\ EnumCalls = <<>>
        /\ (pc = "failed" => error = "PriorLoadError")
        /\ (PastCompute => IsPrefix(PriorData, data))

(* C2: every controller count handed to the enumerator lies in 1..N, N the *)
(* node count of the graph.                                                *)
C2_CountsWithinNodes ==
    \A c \in SeqToSet(EnumCalls) :
        \A j \in 1..Len(c.arg.controllers) :
            1 <= c.arg.controllers[j] /\ c.arg.controllers[j] <= g.nodes

(* C4: the list of controller counts handed to the enumerator never holds  *)
(* the same count twice.                                                   *)
C4_NoCountTwice ==
    \A c \in SeqToSet(EnumCalls) :
        \A j, k \in 1..Len(c.arg.controllers) :
            j # k => c.arg.controllers[j] # c.arg.controllers[k]

----------------------------------------------------------------------------
(* C3: the controller counts handed to the enumerator are: with an         *)
(* explicit controller list, exactly the integers of the list in the given *)
(* order; otherwise the counts 1..from_start (only when compute_start is   *)
(* on) followed by N-from_end+1..N (only when compute_end is on), and      *)
(* nothing else; with the defaults they are exactly 1, 2, 3.               *)

DigitChars == <<"0", "1", "2", "3", "4", "5", "6", "7", "8", "9">>

\* the decimal numeral of a natural number
RECURSIVE Numeral(_)
Numeral(n) ==
    IF n < 10 THEN <<DigitChars[n + 1]>>
    ELSE Numeral(n \div 10) \o <<DigitChars[(n % 10) + 1]>>

\* the numerals of the counts cs, written with one space between them
RECURSIVE Written(_)
Written(cs) ==
    IF cs = <<>> THEN <<>>
    ELSE IF Len(cs) = 1 THEN Numeral(cs[1])
    ELSE Numeral(cs[1]) \o <<" ">> \o Written(Tail(cs))

Max0(n) == IF n > 0 THEN n ELSE 0

\* cs is 1..from_start (if compute_start) followed by N-from_end+1..N (if
\* compute_end) for command line a and node count n
IsRangeSelection(cs, a, n) ==
    LET first == IF a.compute_start THEN Max0(a.from_start) ELSE 0
        last == IF a.compute_end THEN Max0(a.from_end) ELSE 0
    IN  /\ Len(cs) = first + last
        /\ \A j \in 1..first : cs[j] = j
        /\ \A j \in 1..last : cs[first + j] = n - a.from_end + j

\* C3: the counts handed to the enumerator are the integers of the explicit
\* list in order, else the 'first N' then the 'last N' range; 1, 2, 3 with
\* the defaults
C3_CountsChosen ==
    \A c \in SeqToSet(EnumCalls) :
        /\ c.arg.controllers = controllers
        /\ IF argv.controller_list # None /\ argv.controller_list[1] # <<>>
           THEN /\ \A j \in 1..Len(controllers) : controllers[j] >= 0
                /\ Written(controllers) = argv.controller_list[1]
           ELSE IsRangeSelection(controllers, argv, g.nodes)
        /\ (argv.from_start = 3 /\ argv.from_end = 0
            /\ argv.controller_list = None
            /\ argv.compute_start /\ argv.compute_end)
              => controllers = <<1, 2, 3>>

\* the enumerator was called with an explicit list of two different counts
C3_Witness ==
    /\ EnumCalls # <<>>
    /\ argv.controller_list # None
    /\ Len(controllers) = 2
    /\ controllers[1] > controllers[2]

----------------------------------------------------------------------------
(* C5: a configuration error (a metric name outside the known metrics, or  *)
(* a controller-count list with a token that is not an integer) makes the  *)
(* run fail inside parse_args, before the graph is built, the path index   *)
(* computed, link_fail_prob rescaled, the enumerator or a greedy selector  *)
(* invoked, or a file written.                                             *)

\* s, a non-empty string, has a token between its spaces that is not an
\* optionally signed run of digits
HasNonIntegerToken(s) ==
    \/ s[1] = " "
    \/ s[Len(s)] = " "
    \/ \E j \in 1..Len(s) :
          \/ s[j] \notin Digits \cup {" ", "+", "-"}
          \/ s[j] = " " /\ j < Len(s) /\ s[j + 1] = " "
          \/ /\ s[j] \in {"+", "-"}
             /\ ~(/\ (j = 1 \/ s[j - 1] = " ")
                  /\ j < Len(s)
                  /\ s[j + 1] \in Digits)

ConfigurationError(a) ==
    \/ a.metric \notin {"latency", "wc_latency"}
    \/ /\ a.controller_list # None
       /\ a.controller_list[1] # <<>>
       /\ HasNonIntegerToken(a.controller_list[1])

\* C5: a run with a configuration error ends inside parse_args, before any
\* computation step
C5_ConfigErrorBeforeComputation ==
    ConfigurationError(argv) =>
        /\ pc \in {"start", "failed"}
        /\ pc = "failed" => error \in {"OptionError", "ValueError"}
        /\ g = None
        /\ calls = <<>>
        /\ data = <<>>
        /\ EXTRA_PARAMS = InitialParams

\* a run ended by a controller list whose second token is not an integer
C5_Witness ==
    /\ pc = "failed"
    /\ error = "ValueError"
    /\ argv.controller_list = Some(<<"1", " ", "x">>)

----------------------------------------------------------------------------
(* C6: a file is written only if the write option is set; with write on,   *)
(* a completed run has written the JSON file and the summary CSV, and the  *)
(* distribution CSV if and only if write_dist is set; every write comes    *)
(* after the enumerator (or prior-data load) and every enabled greedy      *)
(* selector, and the ResultStore does not change after the first write.    *)

FnNames(cs) == [j \in 1..Len(cs) |-> cs[j].fn]

\* C6: files are written only on request, after all computation, and the
\* ResultStore is not changed afterwards
C6_WritesOnlyOnRequest ==
    LET ws == CallsOf(WriteFns)
    IN  /\ ws # <<>> => argv.write
        /\ pc = "done" =>
              FnNames(ws) =
                 IF ~argv.write THEN <<>>
                 ELSE IF argv.write_dist
                 THEN <<"write_json_file", "write_csv_file",
                        "write_dist_csv_file">>
                 ELSE <<"write_json_file", "write_csv_file">>
        /\ \A j, k \in 1..Len(calls) :
              (j < k /\ calls[j].fn \in WriteFns) => calls[k].fn \in WriteFns
        /\ ws # <<>> =>
              /\ CallsOf({"run_all_combos", "read_json_file"}) # <<>>
              /\ ~argv.dist_only => Len(CallsOf(GreedyFns)) = 9
        /\ \A j \in 1..Len(ws) : ws[j].arg.data = data

\* a completed run that ran the greedy selectors and wrote all three files
C6_Witness ==
    /\ pc = "done"
    /\ ~argv.dist_only
    /\ Len(CallsOf(WriteFns)) = 3
    /\ Len(data) > 9

----------------------------------------------------------------------------
(* C7: the failure parameters passed to the enumerator are max_failures =  *)
(* 2 and, in unweighted mode, link_fail_prob = 0.01; in weighted mode,     *)
(* link_fail_prob = (edge count / total edge weight) * 0.01, so that       *)
(* link_fail_prob times the total weight equals 0.01 times the edge count. *)
C7_FailureParams ==
    \A c \in SeqToSet(EnumCalls) :
        LET p == c.arg.extra_params.link_fail_prob
        IN  /\ c.arg.extra_params.max_failures = 2
            /\ p.den > 0
            /\ IF argv.weighted
               THEN p.num * Sum(g.weights) * 100 = p.den * Len(g.weights)
               ELSE p.num * 100 = p.den

\* the enumerator was called on a weighted graph whose total weight is not
\* its edge count
C7_Witness ==
    /\ EnumCalls # <<>>
    /\ argv.weighted
    /\ Sum(g.weights) > Len(g.weights)
    /\ EXTRA_PARAMS.link_fail_prob # InitialParams.link_fail_prob

----------------------------------------------------------------------------
(* C9: the greedy selectors run if and only if dist_only is off; they run  *)
(* after the exhaustive phase or prior-data load and before any write,     *)
(* each once, in the order informed greedy, greedy-by-dict with closeness  *)
(* centrality as 'greedy-cc', greedy-by-dict with degree centrality as     *)
(* 'greedy-dc', then best-n and worst-n for n = 10, 100, 1000; the two     *)
(* greedy-by-dict results are recorded under distinct labels.              *)

GreedyOrder ==
    <<"run_greedy_informed", "run_greedy_alg_dict", "run_greedy_alg_dict",
      "run_best_n", "run_worst_n", "run_best_n", "run_worst_n",
      "run_best_n", "run_worst_n">>

GreedyN == <<0, 0, 0, 10, 10, 100, 100, 1000, 1000>>

Count(s, P(_)) == Len(SelectSeq(s, P))

\* C9: the greedy selectors run iff dist_only is off, once each, in the
\* fixed order, between the load / enumeration and the writes
C9_GreedySelectors ==
    LET gs == CallsOf(GreedyFns)
    IN  /\ gs # <<>> => ~argv.dist_only
        /\ PastGreedy => Len(gs) = IF argv.dist_only THEN 0 ELSE 9
        /\ Len(gs) <= 9
        /\ \A j \in 1..Len(gs) :
              /\ gs[j].fn = GreedyOrder[j]
              /\ j = 2 => /\ gs[j].arg.label = "greedy-cc"
                          /\ gs[j].arg.dict = "closeness_centrality"
              /\ j = 3 => /\ gs[j].arg.label = "greedy-dc"
                          /\ gs[j].arg.dict = "degree_centrality"
              /\ j > 3 => gs[j].arg.n = GreedyN[j]
        /\ \A j, k \in 1..Len(calls) :
              (j < k /\ calls[k].fn \in GreedyFns) =>
                  calls[j].fn \notin WriteFns
        /\ \A j, k \in 1..Len(calls) :
              (j < k /\ calls[j].fn \in GreedyFns) =>
                  calls[k].fn \notin {"run_all_combos", "read_json_file"}
        /\ gs # <<>> => CallsOf({"run_all_combos", "read_json_file"}) # <<>>
        /\ Len(gs) >= 3 =>
              /\ Count(data, LAMBDA e : e.alg = "greedy-cc") = 1
              /\ Count(data, LAMBDA e : e.alg = "greedy-dc") = 1

\* a completed run with dist_only off: all nine selector calls were made
C9_Witness ==
    /\ pc = "done"
    /\ ~argv.dist_only
    /\ Len(CallsOf(GreedyFns)) = 9
    /\ argv.write

----------------------------------------------------------------------------
(* C10: the weighted rescale of link_fail_prob does not compound: in every *)
(* construction of Metrics in one process, the link_fail_prob in use after *)
(* the path index is computed is (edge count / total edge weight) * 0.01   *)
(* in weighted mode, and 0.01 in unweighted mode even after an earlier     *)
(* weighted construction.                                                  *)
C10_RescaleDoesNotCompound ==
    (pc = "paths" \/ PastCompute) =>
        LET p == EXTRA_PARAMS.link_fail_prob
        IN  IF argv.weighted
            THEN p.num * Sum(g.weights) * 100 = p.den * Len(g.weights)
            ELSE p = [num |-> 1, den |-> 100]

----------------------------------------------------------------------------
(* C8: for the same combinations and scores, evaluating the batches across *)
(* the worker pool (any worker count, batch size and completion order)     *)
(* yields the same best, worst and median values as evaluating them        *)
(* sequentially; only the order of the retained distribution may differ.   *)

\* v occurs in sequence s exactly once
OccursOnce(v, s) == Cardinality({j \in 1..Len(s) : s[j] = v}) = 1

\* C8: the parallel evaluation ends with the summary values of the
\* sequential one and a reordering of its distribution
C8_ParallelMatchesSequential ==
    epc = "done" =>
        LET sequential == Placements(scores)
        IN  /\ summary = Some(Summarise(sequential))
            /\ Len(dist) = Len(sequential)
            /\ \A j \in 1..Len(sequential) : OccursOnce(sequential[j], dist)
            /\ ~pool.multiprocess => dist = sequential

\* a finished parallel evaluation whose batches returned out of order, on
\* scores whose middle entry is not the median
C8_Witness ==
    /\ epc = "done"
    /\ pool.multiprocess
    /\ dist # Placements(scores)
    /\ MedianValue_Unsorted(dist) # summary[1].median

====
